---- MODULE Spec2Model ----
(***************************************************************************)
(* A model of two parts of the gi toolkit:                                 *)
(*   - StructTableView (src/unnamed/part_001): a table view onto a slice   *)
(*     of structs, with SetSlice, ConfigSliceGrid, SliceNewAt, SliceDelete *)
(*     and the render hooks;                                               *)
(*   - FontLib and FontStyle (src/font.go): the font library's scan of the *)
(*     font paths, its face cache, and the resolution of a face name.      *)
(* Strings whose characters the code inspects (file names, font names) are *)
(* sequences of one-character strings.                                     *)
(***************************************************************************)
EXTENDS Integers, Sequences, FiniteSets, TLC

VARIABLES
    \* ---- StructTableView ----
    Slice,        \* sv.Slice: the interface value held, by its kind, element type and identity
    coll,         \* the elements of the collection sv.Slice refers to
    TmpSave,      \* sv.TmpSave: "none" (nil) or a value view handle
    Values,       \* sv.Values: outer dimension fields, inner dimension rows
    framed,       \* StdConfig has created the slice-grid and buttons children
    addBtn,       \* ConfigSliceButtons has created and connected the Add button
    sgKids,       \* the children of the slice-grid layout, in order
    fullReRender, \* the view's full re-render flag
    events,       \* what the last handler did, in order
    lastOp,       \* the last handler that ran, with its argument
    lastArg,      \* the sl the last handler was given, when it was SetSlice
    panicked,     \* a run-time panic has ended the program
    \* ---- FontLib (the FontLibrary singleton) ----
    libNil,       \* fl.FontPaths == nil: the zero FontLib, its maps not yet made
    FontPaths,    \* fl.FontPaths
    FontsAvail,   \* fl.FontsAvail: lowercased font name -> path of its file
    FontInfo,     \* fl.FontInfo
    Faces,        \* fl.Faces: <<lowercased font name, points>> -> face handle
    nDecodes,     \* LoadFontFace calls so far; a new face's handle is its call's number
    libOp,        \* the last FontLib or FontStyle call, with its arguments and result
    poisoned,     \* the names whose file did not decode since the last scan
    \* ---- FontStyle and Prefs ----
    PrefsFontFamily, \* Prefs.FontFamily
    fs,           \* a FontStyle: Family, Style, Weight
    Deco,         \* fs.Deco: the decoration bits, an int32
    decoLog,      \* the last two SetDeco or ClearDeco calls, each with fs.Deco before it
    Face,         \* fs.Face: "nil", "basic" (basicfont.Face7x13) or a face handle
    FaceName,     \* fs.FaceName
    reqs,         \* the FontLibrary.Font requests of the last LoadFont, in order
    \* ---- goroutines calling the FontLibrary ----
    pc,           \* where each goroutine is in its call
    loc,          \* each goroutine's call, arguments and local variables
    ret,          \* what each goroutine's last finished call returned
    initMu,       \* fl.initMu: 0 when free, else the goroutine holding it
    loadMu,       \* fl.loadMu: 0 when free, else the goroutine holding it
    nCalls        \* calls begun so far

viewVars == <<Slice, coll, TmpSave, Values, framed, addBtn, sgKids, fullReRender, events, lastOp, lastArg, panicked>>

libVars == <<libNil, FontPaths, FontsAvail, FontInfo, Faces, nDecodes, libOp, poisoned>>

styleVars == <<PrefsFontFamily, fs>>

concVars == <<pc, loc, ret, initMu, loadMu, nCalls>>

faceVars == <<Deco, decoLog, Face, FaceName, reqs>>

vars == <<viewVars, libVars, styleVars, concVars, faceVars>>

----------------------------------------------------------------------------
(* Bounds of the model *)

MaxLen == 3     \* longest collection
MaxFields == 2  \* struct types have 1..MaxFields fields
MaxPaths == 2   \* most font paths added
MaxInfo == 8    \* most FontInfo entries: scans stop adding beyond it
MaxDecodes == 3 \* most LoadFontFace calls
MaxCalls == 5   \* most calls the goroutines begin

----------------------------------------------------------------------------
(* Go values *)

Min(a, b) == IF a < b THEN a ELSE b

\* reflect.New(svtyp.Elem()).Elem(): the zero value of the element type
ZeroRec == 0

\* a record is known by a number: 0 the zero-valued record, j the j-th record of
\* the collection the caller handed over
RecVals == 0..MaxLen

\* s[lo:hi] of a Go slice, 0-based and half-open
GoSlice(s, lo, hi) == [j \in 1..(hi - lo) |-> s[lo + j]]

\* reflect.Copy(s[dLo:dHi], s[sLo:sHi]) within one backing array: min(len) elements,
\* copied as if through a temporary (memmove)
ReflectCopy(s, dLo, dHi, sLo, sHi) ==
    LET n == Min(dHi - dLo, sHi - sLo)
    IN  [j \in 1..Len(s) |-> IF j > dLo /\ j <= dLo + n THEN s[sLo + (j - dLo)] ELSE s[j]]

\* svnp.Index(i).Set(v), 0-based
SetIndex(s, i, v) == [s EXCEPT ![i + 1] = v]

----------------------------------------------------------------------------
(* Strings: a string is the sequence of its characters *)

UpperChars == <<"A", "B", "C", "D", "E", "F", "G", "H", "I", "J", "K", "L", "M", "N", "O", "P", "Q", "R", "S", "T", "U", "V", "W", "X", "Y", "Z">>

LowerChars == <<"a", "b", "c", "d", "e", "f", "g", "h", "i", "j", "k", "l", "m", "n", "o", "p", "q", "r", "s", "t", "u", "v", "w", "x", "y", "z">>

OtherChars == {" ", ",", "-", ".", "_"}

Chars == {UpperChars[i] : i \in 1..26} \cup {LowerChars[i] : i \in 1..26} \cup OtherChars

\* the byte of a character, for the order of sort.Slice's Name < Name
CharCode ==
    [c \in Chars |->
        IF \E i \in 1..26 : UpperChars[i] = c THEN 64 + (CHOOSE i \in 1..26 : UpperChars[i] = c)
        ELSE IF \E i \in 1..26 : LowerChars[i] = c THEN 96 + (CHOOSE i \in 1..26 : LowerChars[i] = c)
        ELSE IF c = " " THEN 32
        ELSE IF c = "," THEN 44
        ELSE IF c = "-" THEN 45
        ELSE IF c = "." THEN 46
        ELSE 95]

ToLowerChar ==
    [c \in Chars |->
        IF \E i \in 1..26 : UpperChars[i] = c
        THEN LowerChars[CHOOSE i \in 1..26 : UpperChars[i] = c]
        ELSE c]

\* strings.ToLower
ToLower(s) == [i \in 1..Len(s) |-> ToLowerChar[s[i]]]

\* strings.HasSuffix
HasSuffix(s, suf) ==
    /\ Len(suf) <= Len(s)
    /\ SubSeq(s, Len(s) - Len(suf) + 1, Len(s)) = suf

\* strings.TrimSuffix
TrimSuffix(s, suf) == IF HasSuffix(s, suf) THEN SubSeq(s, 1, Len(s) - Len(suf)) ELSE s

\* sub occurs in s at the 0-based offset i
OccursAt(s, sub, i) == i + Len(sub) <= Len(s) /\ SubSeq(s, i + 1, i + Len(sub)) = sub

RECURSIVE IndexFrom(_, _, _)
IndexFrom(s, sub, i) ==
    IF i + Len(sub) > Len(s) THEN -1
    ELSE IF OccursAt(s, sub, i) THEN i
    ELSE IndexFrom(s, sub, i + 1)

\* strings.Index: the offset of the first occurrence, -1 when there is none
Index(s, sub) == IndexFrom(s, sub, 0)

\* strings.Contains
Contains(s, sub) == Index(s, sub) >= 0

\* s with new in place of the old found at offset i, s itself when i < 0
ReplaceAt(s, old, new, i) ==
    IF i < 0 THEN s
    ELSE SubSeq(s, 1, i) \o new \o SubSeq(s, i + Len(old) + 1, Len(s))

\* strings.Replace(s, old, new, 1)
ReplaceFirst(s, old, new) == ReplaceAt(s, old, new, Index(s, old))

\* strings.Replace(s, old, new, -1) for a one-character old and new
ReplaceChar(s, old, new) == [i \in 1..Len(s) |-> IF s[i] = old THEN new ELSE s[i]]

RECURSIVE TrimLeft(_)
TrimLeft(s) == IF Len(s) > 0 /\ s[1] = " " THEN TrimLeft(Tail(s)) ELSE s

RECURSIVE TrimRight(_)
TrimRight(s) == IF Len(s) > 0 /\ s[Len(s)] = " " THEN TrimRight(SubSeq(s, 1, Len(s) - 1)) ELSE s

\* strings.TrimSpace
TrimSpace(s) == TrimRight(TrimLeft(s))

\* strings.Split(s, ","): the pieces between the commas, at least one; i is the
\* offset of the first comma
RECURSIVE SplitAt(_, _)
SplitAt(s, i) ==
    IF i < 0 THEN <<s>>
    ELSE <<SubSeq(s, 1, i)>>
         \o SplitAt(SubSeq(s, i + 2, Len(s)), Index(SubSeq(s, i + 2, Len(s)), <<",">>))

Split(s) == SplitAt(s, Index(s, <<",">>))

\* filepath.Ext: from the last dot on, empty when there is no dot
RECURSIVE ExtFrom(_, _)
ExtFrom(s, i) ==
    IF i < 1 THEN <<>>
    ELSE IF s[i] = "." THEN SubSeq(s, i, Len(s))
    ELSE ExtFrom(s, i - 1)

Ext(s) == ExtFrom(s, Len(s))

\* a < b on strings: byte-wise lexicographic
RECURSIVE StrLess(_, _)
StrLess(a, b) ==
    IF Len(b) = 0 THEN FALSE
    ELSE IF Len(a) = 0 THEN TRUE
    ELSE IF a[1] # b[1] THEN CharCode[a[1]] < CharCode[b[1]]
    ELSE StrLess(Tail(a), Tail(b))

\* maps
EmptyMap == [x \in {} |-> x]

MapPut(m, k, v) == [x \in (DOMAIN m) \cup {k} |-> IF x = k THEN v ELSE m[x]]

\* (a slip: the key left in the map)
MapDelete_Keep(m, k) == m

MapDelete(m, k) == [x \in (DOMAIN m) \ {k} |-> m[x]]

----------------------------------------------------------------------------
(* Strings *)

\* the string literals of FaceNm, SpaceFontMods, FontExts and FontsAvailFromPath
Str ==
    [sArial |-> <<"A", "r", "i", "a", "l">>,
     sTimesNewRoman |-> <<"T", "i", "m", "e", "s", " ", "N", "e", "w", " ", "R", "o", "m", "a", "n">>,
     sCourierNew |-> <<"C", "o", "u", "r", "i", "e", "r", " ", "N", "e", "w">>,
     sAndaleMono |-> <<"A", "n", "d", "a", "l", "e", " ", "M", "o", "n", "o">>,
     sComicSans |-> <<"C", "o", "m", "i", "c", " ", "S", "a", "n", "s">>,
     sComicSansMS |-> <<"C", "o", "m", "i", "c", " ", "S", "a", "n", "s", " ", "M", "S">>,
     sImpact |-> <<"I", "m", "p", "a", "c", "t">>,
     sImpac |-> <<"I", "m", "p", "a", "c">>,
     sBold |-> <<"B", "o", "l", "d">>,
     sItalic |-> <<"I", "t", "a", "l", "i", "c">>,
     sOblique |-> <<"O", "b", "l", "i", "q", "u", "e">>,
     sObqlique |-> <<"O", "b", "q", "l", "i", "q", "u", "e">>,
     sRegularSfx |-> <<" ", "R", "e", "g", "u", "l", "a", "r">>,
     sBoldSfx |-> <<" ", "B", "o", "l", "d">>,
     sBoldItalicSfx |-> <<" ", "B", "o", "l", "d", " ", "I", "t", "a", "l", "i", "c">>,
     sItalicSfx |-> <<" ", "I", "t", "a", "l", "i", "c">>,
     sBoldSp |-> <<"B", "o", "l", "d", " ">>,
     kTimes |-> <<"t", "i", "m", "e", "s">>,
     kSerif |-> <<"s", "e", "r", "i", "f">>,
     kSansSerif |-> <<"s", "a", "n", "s", "-", "s", "e", "r", "i", "f">>,
     kCourier |-> <<"c", "o", "u", "r", "i", "e", "r">>,
     kMonospace |-> <<"m", "o", "n", "o", "s", "p", "a", "c", "e">>,
     kCursive |-> <<"c", "u", "r", "s", "i", "v", "e">>,
     kFantasy |-> <<"f", "a", "n", "t", "a", "s", "y">>,
     kBold |-> <<"b", "o", "l", "d">>,
     kItalic |-> <<"i", "t", "a", "l", "i", "c">>,
     kOblique |-> <<"o", "b", "l", "i", "q", "u", "e">>,
     extTtf |-> <<".", "t", "t", "f">>,
     extTtc |-> <<".", "t", "t", "c">>,
     extOtf |-> <<".", "o", "t", "f">>,
     kCalibri |-> <<"c", "a", "l", "i", "b", "r", "i">>,
     kGadugui |-> <<"g", "a", "d", "u", "g", "u", "i">>,
     kSegoeui |-> <<"s", "e", "g", "o", "e", "u", "i">>,
     kSegui |-> <<"s", "e", "g", "u", "i">>,
     kArial |-> <<"a", "r", "i", "a", "l">>]

\* file names in the font directories, and font and family names handed to the library
In ==
    [FileArial |-> <<"a", "r", "i", "a", "l", ".", "t", "t", "f">>,
     FileArialbd |-> <<"a", "r", "i", "a", "l", "b", "d", ".", "t", "t", "f">>,
     FileArialbi |-> <<"a", "r", "i", "a", "l", "b", "i", ".", "t", "t", "f">>,
     FileAriali |-> <<"a", "r", "i", "a", "l", "i", ".", "t", "t", "f">>,
     FileArialCap |-> <<"A", "r", "i", "a", "l", ".", "t", "t", "f">>,
     FileNotes |-> <<"n", "o", "t", "e", "s", ".", "t", "x", "t">>,
     kNoSuch |-> <<"n", "o", "s", "u", "c", "h">>,
     kNonexistentFont |-> <<"n", "o", "n", "e", "x", "i", "s", "t", "e", "n", "t", "-", "f", "o", "n", "t">>,
     famNonexistentSans |-> <<"n", "o", "n", "e", "x", "i", "s", "t", "e", "n", "t", "-", "f", "o", "n", "t", ",", " ", "s", "a", "n", "s", "-", "s", "e", "r", "i", "f">>,
     FileArialOblique |-> <<"A", "r", "i", "a", "l", " ", "O", "b", "l", "i", "q", "u", "e", ".", "t", "t", "f">>,
     FileArialBoldOblique |-> <<"A", "r", "i", "a", "l", " ", "B", "o", "l", "d", " ", "O", "b", "l", "i", "q", "u", "e", ".", "t", "t", "f">>,
     FileCalibri |-> <<"c", "a", "l", "i", "b", "r", "i", ".", "t", "t", "f">>,
     FileGadugi |-> <<"g", "a", "d", "u", "g", "i", ".", "t", "t", "f">>,
     FileSegoeui |-> <<"s", "e", "g", "o", "e", "u", "i", ".", "t", "t", "f">>,
     FileSegui |-> <<"s", "e", "g", "u", "i", ".", "t", "t", "f">>,
     FileTimes |-> <<"t", "i", "m", "e", "s", ".", "t", "t", "f">>,
     sCalibri |-> <<"C", "a", "l", "i", "b", "r", "i">>,
     famSerifSans |-> <<"s", "e", "r", "i", "f", ",", " ", "s", "a", "n", "s", "-", "s", "e", "r", "i", "f">>]

\* AltFontMap: file names to more standard full names
AltFontMap ==
    {<<<<"a", "r", "i", "a", "l">>, <<"A", "r", "i", "a", "l">>>>,
     <<<<"a", "r", "i", "b", "l", "k">>, <<"A", "r", "i", "a", "l", " ", "B", "l", "a", "c", "k">>>>,
     <<<<"c", "a", "n", "d", "a", "r", "a">>, <<"C", "a", "n", "d", "a", "r", "a">>>>,
     <<<<"c", "a", "l", "i", "b", "r", "i">>, <<"C", "a", "l", "i", "b", "r", "i">>>>,
     <<<<"c", "a", "m", "b", "r", "i", "a">>, <<"C", "a", "m", "b", "r", "i", "a">>>>,
     <<<<"c", "o", "u", "r">>, <<"C", "o", "u", "r", "i", "e", "r", " ", "N", "e", "w">>>>,
     <<<<"c", "o", "n", "s", "t", "a", "n">>, <<"C", "o", "n", "s", "t", "a", "n", "t", "i", "a">>>>,
     <<<<"c", "o", "n", "s", "o", "l", "a">>, <<"C", "o", "n", "s", "o", "l", "e">>>>,
     <<<<"c", "o", "m", "i", "c">>, <<"C", "o", "m", "i", "c", " ", "S", "a", "n", "s", " ", "M", "S">>>>,
     <<<<"c", "o", "r", "b", "e", "l">>, <<"C", "o", "r", "b", "e", "l">>>>,
     <<<<"f", "r", "a", "m", "d">>, <<"F", "r", "a", "n", "k", "l", "i", "n", " ", "G", "o", "t", "h", "i", "c", " ", "M", "e", "d", "i", "u", "m">>>>,
     <<<<"g", "e", "o", "r", "g", "i", "a">>, <<"G", "e", "o", "r", "g", "i", "a">>>>,
     <<<<"g", "a", "d", "u", "g", "i">>, <<"G", "a", "d", "u", "g", "i">>>>,
     <<<<"m", "a", "l", "g", "u", "n">>, <<"M", "a", "l", "g", "u", "n", " ", "G", "o", "t", "h", "i", "c">>>>,
     <<<<"m", "m", "r", "t", "e", "x">>, <<"M", "y", "a", "n", "m", "a", "r", " ", "T", "e", "x", "t">>>>,
     <<<<"p", "a", "l", "a">>, <<"P", "a", "l", "a", "t", "i", "n", "o">>>>,
     <<<<"s", "e", "g", "o", "e", "p", "r">>, <<"S", "e", "g", "o", "e", " ", "P", "r", "i", "n", "t">>>>,
     <<<<"s", "e", "g", "o", "e", "s", "c">>, <<"S", "e", "g", "o", "e", " ", "S", "c", "r", "i", "p", "t">>>>,
     <<<<"s", "e", "g", "o", "e", "u", "i">>, <<"S", "e", "g", "o", "e", " ", "U", "I">>>>,
     <<<<"s", "e", "g", "u", "i">>, <<"S", "e", "g", "o", "e", " ", "U", "I", " ", "H", "i", "s", "t", "o", "r", "i", "c">>>>,
     <<<<"t", "a", "h", "o", "m", "a">>, <<"T", "a", "h", "o", "m", "a">>>>,
     <<<<"t", "a", "i", "l", "e">>, <<"T", "r", "a", "d", "i", "t", "i", "o", "n", "a", "l", " ", "A", "r", "a", "b", "i", "c">>>>,
     <<<<"t", "i", "m", "e", "s">>, <<"T", "i", "m", "e", "s", " ", "N", "e", "w", " ", "R", "o", "m", "a", "n">>>>,
     <<<<"t", "r", "e", "b", "u", "c">>, <<"T", "r", "e", "b", "u", "c", "h", "e", "t">>>>,
     <<<<"v", "e", "r", "d", "a", "n", "a">>, <<"V", "e", "r", "d", "a", "n", "a">>>>}

----------------------------------------------------------------------------
(* The values a caller can hand to the view as sl *)

NilIface == [kind |-> "nil", elem |-> "none", nfld |-> 0, id |-> 0]

\* element types: structs with 1..MaxFields fields, and int
ElemTypes == [elem : {"struct"}, nfld : 1..MaxFields] \cup {[elem |-> "int", nfld |-> 0]}

\* a slice value []T, or a pointer to a slice variable *[]T (id: which variable)
SliceArgs ==
    {[kind |-> k, elem |-> t.elem, nfld |-> t.nfld, id |-> 1] : k \in {"slice", "ptr"}, t \in ElemTypes}

\* the values assigned to the field directly: a pointer to a slice of structs, the
\* one kind of value SliceNewAt and SliceDelete can change
PtrArgs == {sl \in SliceArgs : sl.kind = "ptr" /\ sl.elem = "struct" /\ sl.nfld = 1}

\* the collections a caller hands over: n records, all different, none zero-valued
Contents == {[j \in 1..n |-> j] : n \in 0..MaxLen}

\* a != b on two interface values: unequal dynamic types compare unequal, two slices
\* of one type cannot be compared (a run-time panic), pointers compare by identity
IfaceSameType(a, b) == a.kind = b.kind /\ a.elem = b.elem /\ a.nfld = b.nfld

IfaceComparePanics(a, b) == IfaceSameType(a, b) /\ a.kind = "slice"

IfaceNotEqual(a, b) == ~(IfaceSameType(a, b) /\ a.id = b.id)

\* (a slip: any slice taken for a slice of structs)
ElemIsStruct_AnySlice(sl) == sl.kind = "slice"

\* reflect.TypeOf(sl).Elem().Kind() == reflect.Struct
ElemIsStruct(sl) == sl.kind = "slice" /\ sl.elem = "struct"

\* reflect.TypeOf(sv.Slice).Elem().NumField() is defined for a struct element only
NumFieldPanics(sl) == ~ElemIsStruct(sl)

\* (a slip: Elem taken to be defined for every value)
ElemPanics_Never(sl) == FALSE

\* reflect.ValueOf(sv.Slice).Elem() is defined for a pointer only
ElemPanics(sl) == sl.kind # "ptr"

----------------------------------------------------------------------------
(* StructTableView *)

NoView == [fld |-> -1, row |-> -1, save |-> "none", widg |-> -1]

Op(name, arg, ok) == [op |-> name, arg |-> arg, ok |-> ok]

\* the config list of ConfigSliceGrid: per row a label, then a widget per field
RowConfig(i, nfld) ==
    <<[t |-> "label", fld |-> -1, row |-> i]>> \o [f \in 1..nfld |-> [t |-> "value", fld |-> f - 1, row |-> i]]

RECURSIVE GridConfig(_, _)
GridConfig(sz, nfld) ==
    IF sz = 0 THEN <<>> ELSE GridConfig(sz - 1, nfld) \o RowConfig(sz - 1, nfld)

\* (a slip: the outer dimension rows, the inner dimension fields)
NewValues_Transposed(sz, nfld, save, haveGrid) ==
    [i \in 1..sz |-> [f \in 1..nfld |-> NoView]]

\* sv.Values after the loops of ConfigSliceGrid: nfld columns of sz rows, each cell's
\* view bound to its field and row, the pending-save handle, and its widget
NewValues(sz, nfld, save, haveGrid) ==
    [f \in 1..nfld |->
        [i \in 1..sz |->
            IF haveGrid
            THEN [fld |-> f - 1, row |-> i - 1, save |-> save,
                  widg |-> ((i - 1) * (nfld + 1)) + 1 + (f - 1)]
            ELSE NoView]]

\* ConfigSliceGrid as a step from (Values, sgKids, fullReRender): the new values of
\* the three and whether it panicked
ConfigSliceGridRes(sl, c, save, haveGrid, vals, kids, frr) ==
    IF sl.kind = "nil"
    THEN [Values |-> vals, sgKids |-> kids, fullReRender |-> frr, panic |-> FALSE]
    ELSE IF NumFieldPanics(sl)
    THEN [Values |-> vals, sgKids |-> kids, fullReRender |-> frr, panic |-> TRUE]
    ELSE LET sz == Len(c)
             nfld == sl.nfld
             config == GridConfig(sz, nfld)
             mods == config # kids
         IN  IF ~haveGrid
             THEN [Values |-> NewValues(sz, nfld, save, FALSE), sgKids |-> kids,
                   fullReRender |-> frr, panic |-> FALSE]
             ELSE [Values |-> NewValues(sz, nfld, save, TRUE), sgKids |-> config,
                   fullReRender |-> (frr \/ mods), panic |-> FALSE]

\* SetSlice(sl, tmpSave), with c the elements of sl
SetSlice(sl, c, tmpSave) ==
    /\ ~panicked
    /\ UNCHANGED <<libVars, styleVars, concVars, faceVars>>
    /\ lastArg' = sl
    /\ IF IfaceComparePanics(Slice, sl)
       THEN /\ panicked' = TRUE
            /\ lastOp' = Op("SetSlice", 0, FALSE)
            /\ events' = <<>>
            /\ UNCHANGED <<Slice, coll, TmpSave, Values, framed, addBtn, sgKids, fullReRender>>
       ELSE IF IfaceNotEqual(Slice, sl) /\ ~ElemIsStruct(sl)
       THEN /\ lastOp' = Op("SetSlice", 0, FALSE)
            /\ events' = <<>>
            /\ UNCHANGED <<Slice, coll, TmpSave, Values, framed, addBtn, sgKids, fullReRender, panicked>>
       ELSE LET held == IF IfaceNotEqual(Slice, sl) THEN c ELSE coll
                res == ConfigSliceGridRes(sl, held, tmpSave, TRUE, Values, sgKids, fullReRender)
            IN  /\ Slice' = sl
                /\ coll' = held
                /\ TmpSave' = tmpSave
                /\ framed' = TRUE
                /\ addBtn' = (addBtn \/ ~res.panic)
                /\ Values' = res.Values
                /\ sgKids' = res.sgKids
                /\ fullReRender' = res.fullReRender
                /\ panicked' = res.panic
                /\ lastOp' = Op("SetSlice", 0, ~res.panic)
                /\ events' = <<"rebuild">>

\* (a slip: the save hook called twice)
SaveEvents_Twice == IF TmpSave # "none" THEN <<"save", "save">> ELSE <<>>

\* (a slip: the new element put in front)
SliceNewAtColl_Prepend(c, idx) == <<ZeroRec>> \o c

\* SliceNewAt's change of the collection
SliceNewAtColl(c, idx) ==
    LET sz == Len(c)
        app == Append(c, ZeroRec)
    IN  IF idx >= 0 /\ idx < sz - 1
        THEN SetIndex(ReflectCopy(app, idx + 1, sz + 1, idx, sz), idx, ZeroRec)
        ELSE app

SaveEvents == IF TmpSave # "none" THEN <<"save">> ELSE <<>>

SliceNewAt(idx) ==
    /\ ~panicked
    /\ UNCHANGED <<libVars, styleVars, concVars, faceVars>>
    /\ lastArg' = NilIface
    /\ Len(coll) < MaxLen
    /\ IF Slice.kind = "nil" \/ ElemPanics(Slice)
       THEN /\ panicked' = TRUE
            /\ lastOp' = Op("SliceNewAt", idx, FALSE)
            /\ events' = <<>>
            /\ UNCHANGED <<Slice, coll, TmpSave, Values, framed, addBtn, sgKids, fullReRender>>
       ELSE /\ coll' = SliceNewAtColl(coll, idx)
            /\ fullReRender' = TRUE
            /\ events' = <<"mutate">> \o SaveEvents \o <<"emit">>
            /\ lastOp' = Op("SliceNewAt", idx, TRUE)
            /\ UNCHANGED <<Slice, TmpSave, Values, framed, addBtn, sgKids, panicked>>

\* reflect's Value.Slice(i, j) panics unless 0 <= i <= j <= cap
SliceDeletePanics(c, idx) == idx < 0 \/ idx > Len(c) - 1

\* (a slip: the copy taken from idx, not idx+1)
SliceDeleteColl_CopyFromIdx(c, idx) ==
    GoSlice(SetIndex(ReflectCopy(c, idx, Len(c) - 1, idx, Len(c)), Len(c) - 1, ZeroRec), 0, Len(c) - 1)

\* SliceDelete on a slice held by value: the copy and the zeroing are done in the
\* slice's own array before svl.Elem() panics, and the length stays
SliceDeleteShifted(c, idx) ==
    SetIndex(ReflectCopy(c, idx, Len(c) - 1, idx + 1, Len(c)), Len(c) - 1, ZeroRec)

\* SliceDelete's change of the collection
SliceDeleteColl(c, idx) ==
    LET sz == Len(c)
        shifted == SetIndex(ReflectCopy(c, idx, sz - 1, idx + 1, sz), sz - 1, ZeroRec)
    IN  GoSlice(shifted, 0, sz - 1)

SliceDelete(idx) ==
    /\ ~panicked
    /\ UNCHANGED <<libVars, styleVars, concVars, faceVars>>
    /\ lastArg' = NilIface
    /\ IF Slice.kind = "nil" \/ SliceDeletePanics(coll, idx)
       THEN /\ panicked' = TRUE
            /\ lastOp' = Op("SliceDelete", idx, FALSE)
            /\ events' = <<>>
            /\ UNCHANGED <<Slice, coll, TmpSave, Values, framed, addBtn, sgKids, fullReRender>>
       ELSE IF ElemPanics(Slice)
       THEN /\ coll' = SliceDeleteShifted(coll, idx)
            /\ panicked' = TRUE
            /\ lastOp' = Op("SliceDelete", idx, FALSE)
            /\ events' = <<"mutate">>
            /\ UNCHANGED <<Slice, TmpSave, Values, framed, addBtn, sgKids, fullReRender>>
       ELSE /\ coll' = SliceDeleteColl(coll, idx)
            /\ fullReRender' = TRUE
            /\ events' = <<"mutate">> \o SaveEvents \o <<"emit">>
            /\ lastOp' = Op("SliceDelete", idx, TRUE)
            /\ UNCHANGED <<Slice, TmpSave, Values, framed, addBtn, sgKids, panicked>>

\* Style2D: the full rebuild
Style2D ==
    /\ ~panicked
    /\ UNCHANGED <<libVars, styleVars, concVars, faceVars>>
    /\ lastArg' = NilIface
    /\ LET res == ConfigSliceGridRes(Slice, coll, TmpSave, framed, Values, sgKids, fullReRender)
       IN  /\ Values' = res.Values
           /\ sgKids' = res.sgKids
           /\ fullReRender' = res.fullReRender
           /\ panicked' = res.panic
           /\ lastOp' = Op("Style2D", 0, ~res.panic)
           /\ events' = <<"rebuild">>
    /\ UNCHANGED <<Slice, coll, TmpSave, framed, addBtn>>

Render2D ==
    /\ ~panicked
    /\ UNCHANGED <<libVars, styleVars, concVars, faceVars>>
    /\ lastArg' = NilIface
    /\ fullReRender' = FALSE
    /\ lastOp' = Op("Render2D", 0, TRUE)
    /\ events' = <<>>
    /\ UNCHANGED <<Slice, coll, TmpSave, Values, framed, addBtn, sgKids, panicked>>

\* (a slip: the view always offered for re-rendering)
ReRender2DOf_Always(needsFull) == [node |-> "this", layout |-> TRUE]

\* the (node, layout) ReRender2D returns
ReRender2DOf(needsFull) ==
    IF needsFull THEN [node |-> "nil", layout |-> FALSE] ELSE [node |-> "this", layout |-> TRUE]

\* ReRender2D: lastOp.arg is 1 for (the view, true) and 0 for (nil, false)
ReRender2D ==
    /\ ~panicked
    /\ UNCHANGED <<libVars, styleVars, concVars, faceVars>>
    /\ lastArg' = NilIface
    /\ lastOp' = Op("ReRender2D",
                    IF ReRender2DOf(fullReRender) = [node |-> "this", layout |-> TRUE] THEN 1 ELSE 0, TRUE)
    /\ events' = <<>>
    /\ UNCHANGED <<Slice, coll, TmpSave, Values, framed, addBtn, sgKids, fullReRender, panicked>>

\* an assignment to the exported field sv.Slice
AssignSlice(sl, c) ==
    /\ ~panicked
    /\ UNCHANGED <<libVars, styleVars, concVars, faceVars>>
    /\ lastArg' = NilIface
    /\ Slice' = sl
    /\ coll' = c
    /\ lastOp' = Op("AssignSlice", 0, TRUE)
    /\ events' = <<>>
    /\ UNCHANGED <<TmpSave, Values, framed, addBtn, sgKids, fullReRender, panicked>>

\* sv.Values holds a nil ValueView: the grid was made with no slice-grid child
HasNilView == \E f \in 1..Len(Values) : \E i \in 1..Len(Values[f]) : Values[f][i] = NoView

\* UpdateValues: UpdateWidget on every value view, a nil one being a run-time panic
UpdateValues ==
    /\ ~panicked
    /\ UNCHANGED <<libVars, styleVars, concVars, faceVars>>
    /\ lastArg' = NilIface
    /\ panicked' = HasNilView
    /\ lastOp' = Op("UpdateValues", 0, ~HasNilView)
    /\ events' = <<>>
    /\ UNCHANGED <<Slice, coll, TmpSave, Values, framed, addBtn, sgKids, fullReRender>>

\* a click on the Add button of ConfigSliceButtons
AddButton == addBtn /\ SliceNewAt(-1)

ViewInit ==
    /\ Slice = NilIface
    /\ coll = <<>>
    /\ TmpSave = "none"
    /\ Values = <<>>
    /\ framed = FALSE
    /\ addBtn = FALSE
    /\ sgKids = <<>>
    /\ fullReRender = FALSE
    /\ events = <<>>
    /\ lastOp = Op("new", 0, TRUE)
    /\ lastArg = NilIface
    /\ panicked = FALSE

\* the config list when ToValueView returns nil for field gf of row gi: the cell is
\* skipped (continue) and no widget is listed for it
GapConfig(sz, nfld, gf, gi) ==
    SelectSeq(GridConfig(sz, nfld), LAMBDA e : ~(e.t = "value" /\ e.fld = gf /\ e.row = gi))

\* sv.Values when the second loop of ConfigSliceGrid reaches the skipped cell: the
\* cells before it, row by row, have their widget, the cell itself is nil, and the
\* cells after it have a view that ConfigWidget has not been called on
GapValues(sz, nfld, save, gf, gi) ==
    [f \in 1..nfld |->
        [i \in 1..sz |->
            IF f - 1 = gf /\ i - 1 = gi THEN NoView
            ELSE [fld |-> f - 1, row |-> i - 1, save |-> save,
                  widg |-> IF i - 1 < gi \/ (i - 1 = gi /\ f - 1 < gf)
                           THEN ((i - 1) * (nfld + 1)) + 1 + (f - 1)
                           ELSE -1]]]

\* Style2D when ToValueView returns nil for field gf of row gi: the children are
\* configured from the shorter list, and at the skipped cell the second loop calls
\* ConfigWidget on the nil view, a run-time panic
Style2DGap(gf, gi) ==
    /\ ~panicked
    /\ Slice.kind = "slice" /\ ElemIsStruct(Slice) /\ framed
    /\ gf < Slice.nfld /\ gi < Len(coll)
    /\ UNCHANGED <<libVars, styleVars, concVars, faceVars>>
    /\ lastArg' = NilIface
    /\ Values' = GapValues(Len(coll), Slice.nfld, TmpSave, gf, gi)
    /\ sgKids' = GapConfig(Len(coll), Slice.nfld, gf, gi)
    /\ fullReRender' = (fullReRender \/ sgKids' # sgKids)
    /\ panicked' = TRUE
    /\ lastOp' = Op("Style2D", (gi * (Slice.nfld + 1)) + 1 + gf, FALSE)
    /\ events' = <<"rebuild">>
    /\ UNCHANGED <<Slice, coll, TmpSave, framed, addBtn>>

\* a view made with its exported fields Slice and TmpSave set, or left zero
ViewMade ==
    /\ Slice \in SliceArgs \cup {NilIface}
    /\ coll \in Contents
    /\ Slice = NilIface => coll = <<>>
    /\ TmpSave \in {"none", "vv"}
    /\ Values = <<>>
    /\ framed = FALSE
    /\ addBtn = FALSE
    /\ sgKids = <<>>
    /\ fullReRender = FALSE
    /\ events = <<>>
    /\ lastOp = Op("new", 0, TRUE)
    /\ lastArg = NilIface
    /\ panicked = FALSE

\* the methods of the view, and the click on its Add button
OpsNext ==
    \/ \E sl \in SliceArgs, c \in Contents, ts \in {"none", "vv"} : SetSlice(sl, c, ts)
    \/ \E idx \in -1..MaxLen : SliceNewAt(idx)
    \/ \E idx \in -1..MaxLen : SliceDelete(idx)
    \/ AddButton
    \/ Style2D
    \/ UpdateValues
    \/ Render2D
    \/ ReRender2D

\* the methods of the view, with an editor-view factory that can return no view
GapNext ==
    \/ OpsNext
    \/ \E gf \in 0..(MaxFields - 1), gi \in 0..(MaxLen - 1) : Style2DGap(gf, gi)

ViewNext ==
    \/ \E sl \in SliceArgs, c \in Contents, ts \in {"none", "vv"} : SetSlice(sl, c, ts)
    \/ \E sl \in PtrArgs, c \in Contents : AssignSlice(sl, c)
    \/ \E idx \in -1..MaxLen : SliceNewAt(idx)
    \/ \E idx \in -1..MaxLen : SliceDelete(idx)
    \/ AddButton
    \/ Style2D
    \/ Render2D

----------------------------------------------------------------------------
(* The file system: the font directories and the files filepath.Walk finds in
   each, in lexical order *)

Dirs == {"win", "usr", "empty"}

\* two more directories: fonts named in full, and fonts named by alias keys
MoreDirs == {"obl", "alias"}

Files(dir) ==
    IF dir = "win"
    THEN <<In.FileArial, In.FileArialbd, In.FileArialbi, In.FileAriali>>
    ELSE IF dir = "usr"
    THEN <<In.FileArialCap, In.FileNotes>>
    ELSE IF dir = "obl"
    THEN <<In.FileArialBoldOblique, In.FileArialOblique>>
    ELSE IF dir = "alias"
    THEN <<In.FileCalibri, In.FileGadugi, In.FileSegoeui, In.FileSegui, In.FileTimes>>
    ELSE <<>>

----------------------------------------------------------------------------
(* FontLib: the scan *)

FontExts == {Str.extTtf, Str.extTtc}

HasAlt(bfn) == \E p \in AltFontMap : p[1] = bfn

AltName(bfn) == (CHOOSE p \in AltFontMap : p[1] = bfn)[2]

\* the trailing i is stripped unless the name is one of four
TrimItalicLetter(bfn) ==
    IF bfn # Str.kCalibri /\ bfn # Str.kGadugui /\ bfn # Str.kSegoeui /\ bfn # Str.kSegui
    THEN TrimSuffix(bfn, <<"i">>)
    ELSE bfn

\* the file name with its bold / italic suffix letters stripped: bd, bi, z, b, i
BaseFontName(fn) ==
    TrimItalicLetter(
        TrimSuffix(TrimSuffix(TrimSuffix(TrimSuffix(fn, <<"b", "d">>), <<"b", "i">>), <<"z">>), <<"b">>))

\* (a slip: the i suffix tested first)
AltSuffix_ItalicFirst(fn) ==
    IF HasSuffix(fn, <<"i">>) THEN Str.sItalicSfx
    ELSE IF HasSuffix(fn, <<"b", "d">>) \/ HasSuffix(fn, <<"b">>) THEN Str.sBoldSfx
    ELSE IF HasSuffix(fn, <<"b", "i">>) \/ HasSuffix(fn, <<"z">>) THEN Str.sBoldItalicSfx
    ELSE <<>>

\* the suffix an alias gets, tested in the order bd or b, bi or z, i
AltSuffix(fn) ==
    IF HasSuffix(fn, <<"b", "d">>) \/ HasSuffix(fn, <<"b">>) THEN Str.sBoldSfx
    ELSE IF HasSuffix(fn, <<"b", "i">>) \/ HasSuffix(fn, <<"z">>) THEN Str.sBoldItalicSfx
    ELSE IF HasSuffix(fn, <<"i">>) THEN Str.sItalicSfx
    ELSE <<>>

\* bi: strings.Index(fn, mod)
SpaceFontModAt(fn, mod, bi) ==
    IF bi > 0 /\ fn[bi] # " " THEN ReplaceAt(fn, mod, <<" ">> \o mod, bi) ELSE fn

SpaceFontMod(fn, mod) == SpaceFontModAt(fn, mod, Index(fn, mod))

\* FontMods are Bold, Italic, Oblique, in this order
SpaceFontMods(fn) == SpaceFontMod(SpaceFontMod(SpaceFontMod(fn, Str.sBold), Str.sItalic), Str.sOblique)

\* the alias of bfn with the suffix of fn, or fn with _ and - made spaces
AltOrPlainName(fn, bfn) ==
    IF HasAlt(bfn)
    THEN AltName(bfn) \o AltSuffix(fn)
    ELSE ReplaceChar(ReplaceChar(fn, "_", " "), "-", " ")

\* the font name of a file name without its extension
FontNameOfStem(fn) == SpaceFontMods(TrimSuffix(AltOrPlainName(fn, BaseFontName(fn)), Str.sRegularSfx))

\* the font name the walk derives from a font file's name
FontNameOfFile(file) == FontNameOfStem(SubSeq(file, 1, Len(file) - Len(Ext(file))))

FontInfoWith(fn, basefn) ==
    [Name |-> fn,
     Style |-> IF Contains(basefn, Str.kItalic) THEN "FontItalic"
               ELSE IF Contains(basefn, Str.kOblique) THEN "FontOblique"
               ELSE "FontNormal",
     Weight |-> IF Contains(basefn, Str.kBold) THEN "WeightBold" ELSE "WeightNormal"]

\* the FontInfo the walk records for the font name fn
FontInfoOf(fn) == FontInfoWith(fn, ToLower(fn))

AllFiles == UNION {{Files(d)[i] : i \in 1..Len(Files(d))} : d \in Dirs \cup MoreDirs}

DerivedOf(fn) == [font |-> TRUE, basefn |-> ToLower(fn), fi |-> FontInfoOf(fn)]

\* what the walk function derives from a file's name, for each file of the file system
WalkDerived ==
    [file \in AllFiles |->
        IF ToLower(Ext(file)) \notin FontExts
        THEN [font |-> FALSE, basefn |-> <<>>, fi |-> FontInfoOf(<<>>)]
        ELSE DerivedOf(FontNameOfFile(file))]

\* (a slip: a later file of the same key replaces the earlier one)
WalkFileWith_Overwrite(st, dir, file, d) ==
    IF ~d.font
    THEN st
    ELSE [FontsAvail |-> MapPut(st.FontsAvail, d.basefn, [dir |-> dir, file |-> file]),
          FontInfo |-> Append(st.FontInfo, d.fi)]

WalkFileWith(st, dir, file, d) ==
    IF ~d.font \/ d.basefn \in DOMAIN st.FontsAvail
    THEN st
    ELSE [FontsAvail |-> MapPut(st.FontsAvail, d.basefn, [dir |-> dir, file |-> file]),
          FontInfo |-> Append(st.FontInfo, d.fi)]

\* the walk function on one file: st holds FontsAvail and FontInfo
WalkFile(st, dir, file) == WalkFileWith(st, dir, file, WalkDerived[file])

RECURSIVE WalkFiles(_, _, _, _)
WalkFiles(st, dir, files, i) ==
    IF i > Len(files) THEN st ELSE WalkFiles(WalkFile(st, dir, files[i]), dir, files, i + 1)

FontsAvailFromPath(st, dir) == WalkFiles(st, dir, Files(dir), 1)

RECURSIVE ScanPaths(_, _, _)
ScanPaths(st, paths, i) ==
    IF i > Len(paths) THEN st ELSE ScanPaths(FontsAvailFromPath(st, paths[i]), paths, i + 1)

RECURSIVE InsertByName(_, _)
InsertByName(sorted, fi) ==
    IF Len(sorted) = 0 THEN <<fi>>
    ELSE IF StrLess(fi.Name, sorted[1].Name) THEN <<fi>> \o sorted
    ELSE <<sorted[1]>> \o InsertByName(Tail(sorted), fi)

\* sort.Slice(fl.FontInfo, Name < Name): entries of one Name are equal, so the
\* result does not depend on how the sort orders them
RECURSIVE SortByName(_)
SortByName(infos) ==
    IF Len(infos) = 0 THEN <<>>
    ELSE InsertByName(SortByName(SubSeq(infos, 1, Len(infos) - 1)), infos[Len(infos)])

\* the library's fields as one value
Lib ==
    [nil |-> libNil, FontPaths |-> FontPaths, FontsAvail |-> FontsAvail, FontInfo |-> FontInfo,
     poisoned |-> poisoned]

\* the library after a scan that ended with st
Scanned(L, st) ==
    [L EXCEPT !.FontsAvail = st.FontsAvail, !.FontInfo = SortByName(st.FontInfo), !.poisoned = {}]

\* UpdateFontsAvail
UpdateFontsAvailOf(L) ==
    IF Len(L.FontPaths) = 0
    THEN L
    ELSE Scanned(L, ScanPaths([FontsAvail |-> EmptyMap, FontInfo |-> L.FontInfo], L.FontPaths, 1))

\* (a slip: Init scanning the paths whether or not fonts are known)
InitOf_AlwaysRescan(L) ==
    IF L.nil
    THEN [nil |-> FALSE, FontPaths |-> <<>>, FontsAvail |-> EmptyMap, FontInfo |-> <<>>,
          poisoned |-> L.poisoned]
    ELSE UpdateFontsAvailOf(L)

\* Init
InitOf(L) ==
    IF L.nil
    THEN [nil |-> FALSE, FontPaths |-> <<>>, FontsAvail |-> EmptyMap, FontInfo |-> <<>>,
          poisoned |-> L.poisoned]
    ELSE IF DOMAIN L.FontsAvail = {}
    THEN UpdateFontsAvailOf(L)
    ELSE L

AppendPaths(L, paths) == [L EXCEPT !.FontPaths = L.FontPaths \o paths]

\* AddFontPaths
AddFontPathsOf(L, paths) == UpdateFontsAvailOf(AppendPaths(InitOf(L), paths))

\* InitFontPaths
InitFontPathsOf(L, paths) == IF Len(L.FontPaths) > 0 THEN L ELSE AddFontPathsOf(L, paths)

LibOp(op, name, pts, res, face) == [op |-> op, name |-> name, pts |-> pts, res |-> res, face |-> face]

Found(L) == IF DOMAIN L.FontsAvail # {} THEN "true" ELSE "false"

SetLib(L) ==
    /\ Len(L.FontInfo) <= MaxInfo
    /\ Len(L.FontPaths) <= MaxPaths
    /\ libNil' = L.nil
    /\ FontPaths' = L.FontPaths
    /\ FontsAvail' = L.FontsAvail
    /\ FontInfo' = L.FontInfo
    /\ poisoned' = L.poisoned

\* a call that only scans: the library becomes L
ScanCall(op, L) ==
    /\ SetLib(L)
    /\ libOp' = LibOp(op, <<>>, 0, Found(L), 0)
    /\ UNCHANGED <<Faces, nDecodes, viewVars, styleVars, concVars, faceVars>>

LibInit == ScanCall("Init", InitOf(Lib))

AddFontPaths(paths) == ScanCall("AddFontPaths", AddFontPathsOf(Lib, paths))

InitFontPaths(paths) == ScanCall("InitFontPaths", InitFontPathsOf(Lib, paths))

UpdateFontsAvail == ScanCall("UpdateFontsAvail", UpdateFontsAvailOf(Lib))

----------------------------------------------------------------------------
(* FontLib: the faces *)

Points == {12, 14}

\* (a slip: the name looked up as given)
FontKey_CaseSensitive(fontnm) == fontnm

\* the key Font looks a name up by
FontKey(fontnm) == ToLower(fontnm)

\* (a slip: any name served while some font is available)
HasPath_AnyName(L, nm) == DOMAIN L.FontsAvail # {}

\* path := fl.FontsAvail[fontnm]; path != ""
HasPath(L, nm) == nm \in DOMAIN L.FontsAvail

\* Font after its call of Init has left the library L; nm: the lowercased name;
\* decodes: whether LoadFontFace can decode the file
FontIn(L, fontnm, nm, points, decodes) ==
     /\ UNCHANGED <<viewVars, styleVars, concVars, faceVars>>
     /\ IF <<nm, points>> \in DOMAIN Faces
        THEN /\ SetLib(L)
             /\ libOp' = LibOp("Font", fontnm, points, "ok", Faces[<<nm, points>>])
             /\ UNCHANGED <<Faces, nDecodes>>
        ELSE IF HasPath(L, nm)
        THEN /\ nDecodes < MaxDecodes
             /\ nDecodes' = nDecodes + 1
             /\ IF decodes
                THEN /\ SetLib(L)
                     /\ Faces' = MapPut(Faces, <<nm, points>>, nDecodes + 1)
                     /\ libOp' = LibOp("Font", fontnm, points, "ok", nDecodes + 1)
                ELSE /\ SetLib([L EXCEPT !.FontsAvail = MapDelete(L.FontsAvail, nm),
                                         !.poisoned = L.poisoned \cup {nm}])
                     /\ Faces' = Faces
                     /\ libOp' = LibOp("Font", fontnm, points, "loaderr", 0)
        ELSE /\ SetLib(L)
             /\ libOp' = LibOp("Font", fontnm, points, "notfound", 0)
             /\ UNCHANGED <<Faces, nDecodes>>

\* Font(fontnm, points)
Font(fontnm, points, decodes) == FontIn(InitOf(Lib), fontnm, FontKey(fontnm), points, decodes)

\* FontAvail
FontAvail(fontnm) == ToLower(fontnm) \in DOMAIN FontsAvail

LibInitState ==
    /\ libNil = TRUE
    /\ FontPaths = <<>>
    /\ FontsAvail = EmptyMap
    /\ FontInfo = <<>>
    /\ Faces = EmptyMap
    /\ nDecodes = 0
    /\ libOp = LibOp("new", <<>>, 0, "none", 0)
    /\ poisoned = {}

FontNames == {Str.sArial, Str.kArial, In.kNoSuch}

\* the library over a directory of files named by alias keys
AliasNext ==
    \/ LibInit
    \/ \E d \in {"alias", "usr", "empty"} : AddFontPaths(<<d>>)
    \/ UpdateFontsAvail
    \/ \E n \in {In.sCalibri, Str.sTimesNewRoman}, p \in Points, ok \in BOOLEAN : Font(n, p, ok)

LibNext ==
    \/ LibInit
    \/ \E d \in Dirs : AddFontPaths(<<d>>)
    \/ \E d \in Dirs : InitFontPaths(<<d>>)
    \/ UpdateFontsAvail
    \/ \E n \in FontNames, p \in Points, ok \in BOOLEAN : Font(n, p, ok)

----------------------------------------------------------------------------
(* FontStyle *)

\* FontAvail on a library whose available names are A
AvailIn(A, fontnm) == ToLower(fontnm) \in A

\* (a slip: no case for sans-serif)
GenericFamily_NoSansSerif(A, fn, fnm) ==
    IF fn = Str.kTimes \/ fn = Str.kSerif THEN Str.sTimesNewRoman
    ELSE IF fn = Str.kCourier THEN Str.sCourierNew
    ELSE fnm

\* the switch of FaceNm on a family name that is not available
GenericFamily(A, fn, fnm) ==
    IF fn = Str.kTimes THEN Str.sTimesNewRoman
    ELSE IF fn = Str.kSerif THEN Str.sTimesNewRoman
    ELSE IF fn = Str.kSansSerif THEN Str.sArial
    ELSE IF fn = Str.kCourier THEN Str.sCourierNew
    ELSE IF fn = Str.kMonospace
    THEN IF AvailIn(A, Str.sAndaleMono) THEN Str.sAndaleMono ELSE Str.sCourierNew
    ELSE IF fn = Str.kCursive
    THEN IF AvailIn(A, Str.sComicSans) THEN Str.sComicSans
         ELSE IF AvailIn(A, Str.sComicSansMS) THEN Str.sComicSansMS
         ELSE fnm
    ELSE IF fn = Str.kFantasy
    THEN IF AvailIn(A, Str.sImpact) THEN Str.sImpact
         ELSE IF AvailIn(A, Str.sImpac) THEN Str.sImpac
         ELSE fnm
    ELSE fnm

\* the loop of FaceNm over the family names: the first available one ends it
RECURSIVE FamilyLoop(_, _, _, _)
FamilyLoop(A, nms, i, fnm) ==
    IF i > Len(nms) THEN fnm
    ELSE IF AvailIn(A, TrimSpace(nms[i])) THEN TrimSpace(nms[i])
    ELSE FamilyLoop(A, nms, i + 1, GenericFamily(A, TrimSpace(nms[i]), fnm))

\* the modifier words FaceNm adds for a style and weight
FaceMods(fnm, style, weight) ==
    LET bold == IF ~Contains(fnm, Str.sBold) THEN Str.sBoldSp ELSE <<>>
    IN  IF style = "FontItalic" /\ weight = "WeightBold"
        THEN bold \o (IF ~Contains(fnm, Str.sItalic) THEN Str.sItalic ELSE <<>>)
        ELSE IF style = "FontOblique" /\ weight = "WeightBold"
        THEN bold \o (IF ~Contains(fnm, Str.sOblique) THEN Str.sOblique ELSE <<>>)
        ELSE IF style = "FontItalic"
        THEN IF ~Contains(fnm, Str.sItalic) THEN Str.sItalic ELSE <<>>
        ELSE IF style = "FontOblique"
        THEN IF ~Contains(fnm, Str.sOblique) THEN Str.sObqlique ELSE <<>>
        ELSE IF weight = "WeightBold"
        THEN bold
        ELSE <<>>

\* the end of FaceNm: fnm with its modifier words when that name is available
Modified(A, fnm, mods) ==
    IF mods # <<>> /\ AvailIn(A, fnm \o <<" ">> \o TrimSpace(mods))
    THEN fnm \o <<" ">> \o TrimSpace(mods)
    ELSE fnm

FaceNmOf(A, fnm, style, weight) == Modified(A, fnm, FaceMods(fnm, style, weight))

\* FaceNm, with A the names available in the library
FaceNmIn(A, family, style, weight) ==
    FaceNmOf(A, FamilyLoop(A, Split(family), 1, IF PrefsFontFamily = <<>> THEN Str.sArial ELSE PrefsFontFamily),
             style, weight)

\* FaceNm
FaceNm(family, style, weight) == FaceNmIn(DOMAIN FontsAvail, family, style, weight)

FontStylesSet == {"FontNormal", "FontItalic", "FontOblique"}

FontWeightsSet == {"WeightNormal", "WeightBold"}

Families == {In.famNonexistentSans, Str.sArial, In.famSerifSans, Str.kMonospace}

PrefFamilies == {<<>>, Str.sArial, Str.sTimesNewRoman, In.kNoSuch}

\* the style properties set on the FontStyle
SetStyleProps(family, style, weight) ==
    /\ fs' = [Family |-> family, Style |-> style, Weight |-> weight]
    /\ libOp' = LibOp("SetStyleProps", <<>>, 0, "none", 0)
    /\ UNCHANGED <<libNil, FontPaths, FontsAvail, FontInfo, Faces, nDecodes, poisoned, PrefsFontFamily, viewVars, concVars, faceVars>>

FaceNmCall ==
    /\ libOp' = LibOp("FaceNm", FaceNm(fs.Family, fs.Style, fs.Weight), 0, "none", 0)
    /\ UNCHANGED <<libNil, FontPaths, FontsAvail, FontInfo, Faces, nDecodes, poisoned, PrefsFontFamily, fs, viewVars, concVars, faceVars>>

\* FaceNm over a library that can hold Oblique faces
ModsNext ==
    \/ \E d \in {"win", "obl"} : AddFontPaths(<<d>>)
    \/ \E f \in {<<>>, Str.sArial}, st \in FontStylesSet, w \in FontWeightsSet : SetStyleProps(f, st, w)
    \/ FaceNmCall

StyleInitState ==
    /\ PrefsFontFamily \in PrefFamilies
    /\ fs = [Family |-> <<>>, Style |-> "FontNormal", Weight |-> "WeightNormal"]

StyleNext ==
    \/ \E d \in Dirs : AddFontPaths(<<d>>)
    \/ \E f \in Families, st \in FontStylesSet, w \in FontWeightsSet : SetStyleProps(f, st, w)
    \/ FaceNmCall

----------------------------------------------------------------------------
(* FontStyle: the decoration bits *)

\* TextDecorations, by their numbers
DecoNone == 0

DecoUnderline == 1

DecoLineThrough == 3

DecoBgColor == 9

TextDecorationsN == 10

\* the flags the calls are made with
DecoFlags == {DecoNone, DecoUnderline, DecoLineThrough, DecoBgColor}

\* bit number flag of an int32 that is not negative
BitOf(bits, flag) == (bits \div (2 ^ flag)) % 2

\* (a slip: every bit cleared)
Clear32_ClearAll(bits, flag) == 0

\* bitflag.Set32: bits |= 1 << flag
Set32(bits, flag) == IF BitOf(bits, flag) = 1 THEN bits ELSE bits + (2 ^ flag)

\* bitflag.Clear32: bits &^= 1 << flag
Clear32(bits, flag) == IF BitOf(bits, flag) = 1 THEN bits - (2 ^ flag) ELSE bits

\* the log with the call op(flag) put in front, the last two calls kept
Logged(op, flag) ==
    <<[op |-> op, flag |-> flag, pre |-> Deco]>> \o SubSeq(decoLog, 1, Min(1, Len(decoLog)))

DecoFrame == UNCHANGED <<viewVars, libVars, styleVars, concVars, Face, FaceName, reqs>>

SetDeco(deco) ==
    /\ Deco' = Set32(Deco, deco)
    /\ decoLog' = Logged("SetDeco", deco)
    /\ DecoFrame

ClearDeco(deco) ==
    /\ Deco' = Clear32(Deco, deco)
    /\ decoLog' = Logged("ClearDeco", deco)
    /\ DecoFrame

\* SetStylePost with text-decoration: none
SetStylePostNone ==
    /\ Deco' = DecoNone
    /\ decoLog' = Logged("SetStylePost", DecoNone)
    /\ DecoFrame

DecoNext ==
    \/ \E d \in DecoFlags : SetDeco(d)
    \/ \E d \in DecoFlags : ClearDeco(d)
    \/ SetStylePostNone

----------------------------------------------------------------------------
(* FontStyle: LoadFont *)

NilFace == [kind |-> "nil", id |-> 0]

\* basicfont.Face7x13
BasicFace == [kind |-> "basic", id |-> 0]

LoadedFace(id) == [kind |-> "face", id |-> id]

\* fs.Size.Dots as rounded by LoadFont: 0 stands for no size set
SizeDots == {0, 14}

\* intDots
IntDots(dots) == IF dots = 0 THEN 12 ELSE dots

\* what Font returns and leaves behind, with L the library after Font's call of
\* Init, F the face cache and nd the decodes so far
FontAt(L, F, nd, nm, points, decodes) ==
    IF <<nm, points>> \in DOMAIN F
    THEN [L |-> L, Faces |-> F, nDecodes |-> nd, res |-> "ok", face |-> F[<<nm, points>>]]
    ELSE IF HasPath(L, nm)
    THEN IF decodes
         THEN [L |-> L, Faces |-> MapPut(F, <<nm, points>>, nd + 1), nDecodes |-> nd + 1,
               res |-> "ok", face |-> nd + 1]
         ELSE [L |-> [L EXCEPT !.FontsAvail = MapDelete(L.FontsAvail, nm),
                               !.poisoned = L.poisoned \cup {nm}],
               Faces |-> F, nDecodes |-> nd + 1, res |-> "loaderr", face |-> 0]
    ELSE [L |-> L, Faces |-> F, nDecodes |-> nd, res |-> "notfound", face |-> 0]

\* FontLibrary.Font(fontnm, points) called on the library L
FontOn(L, F, nd, fontnm, points, decodes) ==
    FontAt(InitOf(L), F, nd, FontKey(fontnm), points, decodes)

\* (a slip: no built-in face when the request fails)
FaceAfter_KeepHeld(r, held) == IF r.res = "ok" THEN LoadedFace(r.face) ELSE held

\* fs.Face after a request with result r made with no fallback left
FaceAfter(r, held) ==
    IF r.res = "ok" THEN LoadedFace(r.face)
    ELSE IF held = NilFace THEN BasicFace
    ELSE held

\* the state LoadFont leaves: the library and cache of r, the face, the face name
\* and the requests made
Loaded(r, face, name, rq, fallback, res1) ==
    /\ r.nDecodes <= MaxDecodes
    /\ SetLib(r.L)
    /\ Faces' = r.Faces
    /\ nDecodes' = r.nDecodes
    /\ Face' = face
    /\ FaceName' = name
    /\ reqs' = rq
    /\ libOp' = LibOp("LoadFont", fallback, 0, res1, 0)

\* the recursive LoadFont(ctxt, ""): FaceNm is computed again, on the library the
\* first request left, and its name requested
LoadFontAgain(r1, name1, name2, fallback, points, decodes) ==
    Loaded(FontOn(r1.L, r1.Faces, r1.nDecodes, name2, points, decodes),
           FaceAfter(FontOn(r1.L, r1.Faces, r1.nDecodes, name2, points, decodes), Face),
           name2, <<name1, name2>>, fallback, r1.res)

\* LoadFont after its first request, for name1, has returned r1
LoadFontWith(r1, name1, fallback, points, decodes2) ==
    IF r1.res # "ok" /\ Face = NilFace /\ fallback # <<>>
    THEN LoadFontAgain(r1, name1, FaceNmIn(DOMAIN r1.L.FontsAvail, fs.Family, fs.Style, fs.Weight),
                       fallback, points, decodes2)
    ELSE Loaded(r1, FaceAfter(r1, Face), name1, <<name1>>, fallback, r1.res)

LoadFontNamed(name1, fallback, points, decodes1, decodes2) ==
    LoadFontWith(FontOn(Lib, Faces, nDecodes, name1, points, decodes1), name1, fallback, points, decodes2)

\* LoadFont(ctxt, fallback)
LoadFont(fallback, dots, decodes1, decodes2) ==
    /\ LoadFontNamed(FaceNm(fs.Family, fs.Style, fs.Weight), fallback, IntDots(dots), decodes1, decodes2)
    /\ UNCHANGED <<viewVars, styleVars, concVars, Deco, decoLog>>

FaceInitState ==
    /\ Deco = DecoNone
    /\ decoLog = <<>>
    /\ Face = NilFace
    /\ FaceName = <<>>
    /\ reqs = <<>>

Fallbacks == {<<>>, Str.sArial, Str.sTimesNewRoman}

LoadFamilies == {Str.sArial, In.kNoSuch}

LoadDirs == {"usr"}

LoadNext ==
    \/ \E d \in LoadDirs : AddFontPaths(<<d>>)
    \/ \E f \in LoadFamilies : SetStyleProps(f, "FontNormal", "WeightNormal")
    \/ \E fb \in Fallbacks, dots \in SizeDots, ok1, ok2 \in BOOLEAN : LoadFont(fb, dots, ok1, ok2)

----------------------------------------------------------------------------
(* FontLib called from several goroutines: each call advances by steps, one *)
(* step for each stretch of code between two points where another goroutine *)
(* can see or change the library                                            *)

Threads == {1, 2}

ConcDirs == {"usr"}

ConcNames == {Str.kArial}

IdleLoc ==
    [call |-> "none", nm |-> <<>>, pts |-> 0, dir |-> "none", byInit |-> FALSE,
     paths |-> <<>>, i |-> 0, face |-> 0, decoded |-> FALSE]

NoRet == [call |-> "none", nm |-> <<>>, pts |-> 0, res |-> "none", face |-> 0, decoded |-> FALSE]

ConcInitState ==
    /\ pc = [t \in Threads |-> "idle"]
    /\ loc = [t \in Threads |-> IdleLoc]
    /\ ret = [t \in Threads |-> NoRet]
    /\ initMu = 0
    /\ loadMu = 0
    /\ nCalls = 0

ConcFrame == UNCHANGED <<viewVars, styleVars, faceVars, libOp, poisoned>>

\* goroutine t begins call c
Begin(t, c) ==
    /\ pc[t] = "idle"
    /\ nCalls < MaxCalls
    /\ nCalls' = nCalls + 1
    /\ pc' = [pc EXCEPT ![t] = "init"]
    /\ loc' = [loc EXCEPT ![t] = c]
    /\ UNCHANGED <<libNil, FontPaths, FontsAvail, FontInfo, Faces, nDecodes, ret, initMu, loadMu>>
    /\ ConcFrame

\* Font is called: the name is lowercased and Init comes next
CallFont(t, fontnm, points) ==
    Begin(t, [IdleLoc EXCEPT !.call = "Font", !.nm = FontKey(fontnm), !.pts = points])

\* AddFontPaths is called: Init comes next
CallAddFontPaths(t, d) == Begin(t, [IdleLoc EXCEPT !.call = "AddFontPaths", !.dir = d])

\* Init is called
CallInit(t) == Begin(t, [IdleLoc EXCEPT !.call = "Init"])

\* goroutine t returns res and face from its call
Return(t, res, face) ==
    /\ pc' = [pc EXCEPT ![t] = "idle"]
    /\ ret' = [ret EXCEPT ![t] = [call |-> loc[t].call, nm |-> loc[t].nm, pts |-> loc[t].pts,
                                  res |-> res, face |-> face, decoded |-> loc[t].decoded]]

\* goroutine t leaves Init: to the caller's next statement, or out of the call
AfterInit(t) ==
    IF loc[t].call = "Init" THEN Return(t, "none", 0)
    ELSE /\ pc' = [pc EXCEPT ![t] = IF loc[t].call = "Font" THEN "font_cache" ELSE "add_append"]
         /\ ret' = ret

\* Init takes initMu; it makes the maps or finds nothing to do and unlocks, or
\* it keeps the lock and goes into UpdateFontsAvail
InitLock(t) ==
    /\ pc[t] = "init"
    /\ initMu = 0
    /\ IF libNil
       THEN /\ libNil' = FALSE
            /\ FontPaths' = <<>>
            /\ FontsAvail' = EmptyMap
            /\ FontInfo' = <<>>
            /\ AfterInit(t)
            /\ UNCHANGED <<initMu, loc>>
       ELSE IF DOMAIN FontsAvail = {}
       THEN /\ initMu' = t
            /\ pc' = [pc EXCEPT ![t] = "scan"]
            /\ loc' = [loc EXCEPT ![t].byInit = TRUE]
            /\ UNCHANGED <<libNil, FontPaths, FontsAvail, FontInfo, ret>>
       ELSE /\ AfterInit(t)
            /\ UNCHANGED <<libNil, FontPaths, FontsAvail, FontInfo, initMu, loc>>
    /\ UNCHANGED <<Faces, nDecodes, loadMu, nCalls>>
    /\ ConcFrame

\* UpdateFontsAvail returns found: Init unlocks, AddFontPaths returns
ScanEnd(t, found) ==
    IF loc[t].byInit
    THEN /\ initMu' = 0
         /\ loc' = [loc EXCEPT ![t].byInit = FALSE]
         /\ AfterInit(t)
    ELSE /\ initMu' = initMu
         /\ loc' = loc
         /\ Return(t, found, 0)

\* AddFontPaths appends its path and goes into UpdateFontsAvail
AddAppend(t) ==
    /\ pc[t] = "add_append"
    /\ Len(FontPaths) < MaxPaths
    /\ FontPaths' = Append(FontPaths, loc[t].dir)
    /\ pc' = [pc EXCEPT ![t] = "scan"]
    /\ UNCHANGED <<libNil, FontsAvail, FontInfo, Faces, nDecodes, loc, ret, initMu, loadMu, nCalls>>
    /\ ConcFrame

\* UpdateFontsAvail begins: no path, or a new FontsAvail and the paths to range over
ScanStart(t) ==
    /\ pc[t] = "scan"
    /\ IF Len(FontPaths) = 0
       THEN /\ ScanEnd(t, "false")
            /\ FontsAvail' = FontsAvail
       ELSE /\ FontsAvail' = EmptyMap
            /\ pc' = [pc EXCEPT ![t] = "scan_path"]
            /\ loc' = [loc EXCEPT ![t].paths = FontPaths, ![t].i = 1]
            /\ UNCHANGED <<ret, initMu>>
    /\ UNCHANGED <<libNil, FontPaths, FontInfo, Faces, nDecodes, loadMu, nCalls>>
    /\ ConcFrame

\* the library's FontsAvail and FontInfo become those of st
ScanWrite(st) ==
    /\ Len(st.FontInfo) <= MaxInfo
    /\ FontsAvail' = st.FontsAvail
    /\ FontInfo' = st.FontInfo

\* UpdateFontsAvail walks its next path
ScanPath(t) ==
    /\ pc[t] = "scan_path"
    /\ loc[t].i <= Len(loc[t].paths)
    /\ ScanWrite(FontsAvailFromPath([FontsAvail |-> FontsAvail, FontInfo |-> FontInfo],
                                    loc[t].paths[loc[t].i]))
    /\ loc' = [loc EXCEPT ![t].i = loc[t].i + 1]
    /\ UNCHANGED <<libNil, FontPaths, Faces, nDecodes, pc, ret, initMu, loadMu, nCalls>>
    /\ ConcFrame

\* UpdateFontsAvail sorts FontInfo and returns
ScanSort(t) ==
    /\ pc[t] = "scan_path"
    /\ loc[t].i > Len(loc[t].paths)
    /\ FontInfo' = SortByName(FontInfo)
    /\ ScanEnd(t, IF DOMAIN FontsAvail # {} THEN "true" ELSE "false")
    /\ UNCHANGED <<libNil, FontPaths, FontsAvail, Faces, nDecodes, loadMu, nCalls>>
    /\ ConcFrame

\* Font looks in the cache, with no lock held
FontCache(t) ==
    /\ pc[t] = "font_cache"
    /\ IF <<loc[t].nm, loc[t].pts>> \in DOMAIN Faces
       THEN Return(t, "ok", Faces[<<loc[t].nm, loc[t].pts>>])
       ELSE /\ pc' = [pc EXCEPT ![t] = "font_lookup"]
            /\ ret' = ret
    /\ UNCHANGED <<libNil, FontPaths, FontsAvail, FontInfo, Faces, nDecodes, loc, initMu, loadMu, nCalls>>
    /\ ConcFrame

\* Font looks the name up and calls LoadFontFace, with no lock held
FontLookup(t, decodes) ==
    /\ pc[t] = "font_lookup"
    /\ IF HasPath(Lib, loc[t].nm)
       THEN /\ nDecodes < MaxDecodes
            /\ nDecodes' = nDecodes + 1
            /\ loc' = [loc EXCEPT ![t].decoded = TRUE, ![t].face = IF decodes THEN nDecodes + 1 ELSE 0]
            /\ pc' = [pc EXCEPT ![t] = IF decodes THEN "font_lock" ELSE "font_delete"]
            /\ ret' = ret
       ELSE /\ Return(t, "notfound", 0)
            /\ UNCHANGED <<nDecodes, loc>>
    /\ UNCHANGED <<libNil, FontPaths, FontsAvail, FontInfo, Faces, initMu, loadMu, nCalls>>
    /\ ConcFrame

\* Font removes a name whose file did not decode
FontDelete(t) ==
    /\ pc[t] = "font_delete"
    /\ FontsAvail' = MapDelete(FontsAvail, loc[t].nm)
    /\ Return(t, "loaderr", 0)
    /\ UNCHANGED <<libNil, FontPaths, FontInfo, Faces, nDecodes, loc, initMu, loadMu, nCalls>>
    /\ ConcFrame

\* Font takes loadMu
FontLock(t) ==
    /\ pc[t] = "font_lock"
    /\ loadMu = 0
    /\ loadMu' = t
    /\ pc' = [pc EXCEPT ![t] = "font_store"]
    /\ UNCHANGED <<libNil, FontPaths, FontsAvail, FontInfo, Faces, nDecodes, loc, ret, initMu, nCalls>>
    /\ ConcFrame

\* Font stores the face it decoded, unlocks and returns it
FontStore(t) ==
    /\ pc[t] = "font_store"
    /\ Faces' = MapPut(Faces, <<loc[t].nm, loc[t].pts>>, loc[t].face)
    /\ loadMu' = 0
    /\ Return(t, "ok", loc[t].face)
    /\ UNCHANGED <<libNil, FontPaths, FontsAvail, FontInfo, nDecodes, loc, initMu, nCalls>>
    /\ ConcFrame

ConcNext ==
    \E t \in Threads :
        \/ \E n \in ConcNames, p \in Points : CallFont(t, n, p)
        \/ \E d \in ConcDirs : CallAddFontPaths(t, d)
        \/ CallInit(t)
        \/ InitLock(t)
        \/ AddAppend(t)
        \/ ScanStart(t)
        \/ ScanPath(t)
        \/ ScanSort(t)
        \/ FontCache(t)
        \/ \E ok \in BOOLEAN : FontLookup(t, ok)
        \/ FontDelete(t)
        \/ FontLock(t)
        \/ FontStore(t)

----------------------------------------------------------------------------
(* Specifications *)

Init ==
    ViewInit /\ LibInitState /\ StyleInitState /\ ConcInitState /\ FaceInitState /\ PrefsFontFamily = <<>>

Next == ViewNext

\* the StructTableView under its handlers
Spec == Init /\ [][Next]_vars

\* the font library under calls made one after another
SpecLib == Init /\ [][LibNext]_vars

StyleInit == ViewInit /\ LibInitState /\ StyleInitState /\ ConcInitState /\ FaceInitState

\* a FontStyle over the font library
SpecStyle == StyleInit /\ [][StyleNext]_vars

SpecAlias == Init /\ [][AliasNext]_vars

SpecMods == StyleInit /\ [][ModsNext]_vars

\* the font library under calls from two goroutines
SpecConc == Init /\ [][ConcNext]_vars

\* a StructTableView made with any field values, then under its methods only
OpsInit ==
    ViewMade /\ LibInitState /\ StyleInitState /\ ConcInitState /\ FaceInitState /\ PrefsFontFamily = <<>>

SpecOps == OpsInit /\ [][OpsNext]_vars

SpecGap == OpsInit /\ [][GapNext]_vars

\* the decoration bits of a FontStyle
SpecDeco == Init /\ [][DecoNext]_vars

\* a FontStyle loading its face from the font library
SpecLoad == StyleInit /\ [][LoadNext]_vars

----------------------------------------------------------------------------
(* Properties of StructTableView *)

\* c with v put at the 0-based position k
InsertAt(c, k, v) == SubSeq(c, 1, k) \o <<v>> \o SubSeq(c, k + 1, Len(c))

\* c without the element at the 0-based position k
RemoveAt(c, k) == SubSeq(c, 1, k) \o SubSeq(c, k + 2, Len(c))

NewAtDone(k) == lastOp'.op = "SliceNewAt" /\ lastOp'.ok /\ lastOp'.arg = k

\* C1: for every k with 0 <= k < N, k = N-1 included, SliceNewAt(k) leaves N+1
\* elements with a zero-valued record at k, the old k..N-1 at k+1..N and 0..k-1
\* unchanged.
C1_InsertAtEveryIndex ==
    [][\A k \in 0..(Len(coll) - 1) : NewAtDone(k) => coll' = InsertAt(coll, k, ZeroRec)]_vars

\* C2: SliceNewAt(-1) on N elements leaves N+1 elements, the last a zero-valued
\* record, and the elements at 0..N-1 as they were.
C2_AppendAtEnd ==
    [][NewAtDone(-1) =>
        /\ Len(coll') = Len(coll) + 1
        /\ coll'[Len(coll')] = ZeroRec
        /\ \A j \in 1..Len(coll) : coll'[j] = coll[j]]_vars

C2_Witness ==
    /\ lastOp.op = "SliceNewAt" /\ lastOp.ok /\ lastOp.arg = -1
    /\ coll = <<1, 2, 0>>

\* C3: for every k with 0 <= k < N, SliceDelete(k) leaves N-1 elements, 0..k-1
\* unchanged and the old k+1..N-1 at k..N-2.
C3_DeleteShiftsDown ==
    [][\A k \in 0..(Len(coll) - 1) :
        (lastOp'.op = "SliceDelete" /\ lastOp'.ok /\ lastOp'.arg = k) =>
            /\ Len(coll') = Len(coll) - 1
            /\ \A j \in 1..k : coll'[j] = coll[j]
            /\ \A j \in (k + 1)..(Len(coll) - 1) : coll'[j] = coll[j + 1]]_vars

C3_Witness ==
    /\ lastOp.op = "SliceDelete" /\ lastOp.ok /\ lastOp.arg = 1
    /\ coll = <<1, 3>>

\* the lengths of the columns of a grid
Dims(v) == [f \in 1..Len(v) |-> Len(v[f])]

Rebuilt == events' = <<"rebuild">>

\* C4: after SetSlice accepts N records of a type with F fields, Values has F
\* columns of N rows each, and keeps that shape in every later state until the
\* next rebuild.
C4_GridShape ==
    /\ []((lastOp.op = "SetSlice" /\ lastOp.ok) =>
            /\ Len(Values) = Slice.nfld
            /\ \A f \in 1..Len(Values) : Len(Values[f]) = Len(coll))
    /\ [][~Rebuilt => Dims(Values') = Dims(Values)]_vars

C4_Witness ==
    /\ lastOp.op = "Render2D"
    /\ Slice.kind = "slice" /\ Slice.nfld = 2 /\ Len(coll) = 3
    /\ Dims(Values) = <<3, 3>>

----------------------------------------------------------------------------
(* Properties of the font library *)

\* the cache key of the Font call libOp records
CallKey(op) == <<ToLower(op.name), op.pts>>

\* C5: once Font(name, points) has succeeded, every later Font(name', points)
\* with name' equal to name but for case returns the same face without a decode,
\* whatever FontLib calls come between.
C5_CachedFaceKept ==
    [][/\ \A k \in DOMAIN Faces : k \in DOMAIN Faces' /\ Faces'[k] = Faces[k]
       /\ (libOp'.op = "Font" /\ libOp'.res = "ok") =>
            (CallKey(libOp') \in DOMAIN Faces' /\ Faces'[CallKey(libOp')] = libOp'.face)
       /\ (libOp'.op = "Font" /\ CallKey(libOp') \in DOMAIN Faces) =>
            /\ libOp'.res = "ok"
            /\ libOp'.face = Faces[CallKey(libOp')]
            /\ nDecodes' = nDecodes]_vars

C5_Witness ==
    /\ libOp.op = "Font" /\ libOp.name = Str.sArial /\ libOp.pts = 12
    /\ libOp.res = "ok" /\ libOp.face = 1
    /\ nDecodes = 2 /\ <<Str.kArial, 14>> \notin DOMAIN Faces
    /\ Len(FontPaths) = 2

UnknownName == libOp'.op = "Font" /\ ToLower(libOp'.name) \notin DOMAIN FontsAvail

\* C6 as claimed: in every state, Font with a name that is not a key of FontsAvail
\* returns a not-found error and leaves FontsAvail as it was.
C6_UnknownNameNotFound ==
    [][UnknownName => (libOp'.res = "notfound" /\ FontsAvail' = FontsAvail)]_vars

\* C6 as amended: when FontsAvail is not empty or no font path is set, Font with
\* a name that is not a key of FontsAvail and has no cached face of the size asked
\* for returns a not-found error and leaves FontsAvail as it was.
C6_UnknownNameNotFoundUnlessRescanOrCached ==
    [][(/\ UnknownName
        /\ (DOMAIN FontsAvail # {} \/ Len(FontPaths) = 0)
        /\ CallKey(libOp') \notin DOMAIN Faces)
       => (libOp'.res = "notfound" /\ FontsAvail' = FontsAvail)]_vars

C6_Witness ==
    /\ libOp.op = "Font" /\ libOp.res = "notfound"
    /\ libOp.name = Str.sArial
    /\ DOMAIN FontsAvail # {} /\ Str.kArial \notin DOMAIN FontsAvail
    /\ Faces # EmptyMap

ArialKeys ==
    {Str.kArial, Str.kArial \o ToLower(Str.sBoldSfx), Str.kArial \o ToLower(Str.sItalicSfx), Str.kArial \o ToLower(Str.sBoldItalicSfx)}

ArialInfos ==
    {[Name |-> Str.sArial, Style |-> "FontNormal", Weight |-> "WeightNormal"],
     [Name |-> Str.sArial \o Str.sBoldSfx, Style |-> "FontNormal", Weight |-> "WeightBold"],
     [Name |-> Str.sArial \o Str.sItalicSfx, Style |-> "FontItalic", Weight |-> "WeightNormal"],
     [Name |-> Str.sArial \o Str.sBoldItalicSfx, Style |-> "FontItalic", Weight |-> "WeightBold"]}

\* C9: a scan of the directory of arial.ttf, arialbd.ttf, ariali.ttf and
\* arialbi.ttf gives the four keys arial, arial bold, arial italic, arial bold
\* italic, with FontInfo names Arial, Arial Bold, Arial Italic, Arial Bold Italic,
\* weight Bold for the two Bold names only and style Italic for the two Italic
\* names only.
C9_ArialDirectoryScan ==
    (libOp.op \in {"AddFontPaths", "UpdateFontsAvail"} /\ FontPaths = <<"win">>) =>
        /\ DOMAIN FontsAvail = ArialKeys
        /\ {FontInfo[i] : i \in 1..Len(FontInfo)} = ArialInfos

C9_Witness ==
    /\ libOp.op = "AddFontPaths" /\ FontPaths = <<"win">>
    /\ Cardinality(DOMAIN FontsAvail) = 4 /\ Len(FontInfo) = 4

----------------------------------------------------------------------------
(* Properties of FontStyle *)

SansSerifCase ==
    /\ libOp.op = "FaceNm"
    /\ fs.Family = In.famNonexistentSans
    /\ fs.Style = "FontNormal" /\ fs.Weight = "WeightNormal"
    /\ FontAvail(Str.sArial)
    /\ ~FontAvail(In.kNonexistentFont) /\ ~FontAvail(Str.kSansSerif)

\* C10: FaceNm with Family "nonexistent-font, sans-serif", style and weight
\* normal, Arial available and neither listed name available, returns Arial for
\* every Prefs.FontFamily.
C10_SansSerifIsArial == SansSerifCase => libOp.name = Str.sArial

C10_Witness == SansSerifCase /\ PrefsFontFamily = Str.sTimesNewRoman /\ libOp.name = Str.sArial

----------------------------------------------------------------------------
(* Properties of the font library under two goroutines *)

SamePairOk(t, u) ==
    /\ ret[t].call = "Font" /\ ret[u].call = "Font"
    /\ ret[t].nm = ret[u].nm /\ ret[t].pts = ret[u].pts
    /\ ret[t].res = "ok" /\ ret[u].res = "ok"

\* C7: when two goroutines call Font for one (name, points) pair, LoadFontFace
\* runs for the pair in at most one of the calls and both calls return the same
\* face.
C7_OneDecodeOneFace ==
    \A t, u \in Threads :
        (t # u /\ SamePairOk(t, u)) =>
            (ret[t].face = ret[u].face /\ ~(ret[t].decoded /\ ret[u].decoded))

InScan(t) == pc[t] \in {"scan", "scan_path"}

CachedFontAtInit(u) ==
    /\ pc[u] = "init" /\ loc[u].call = "Font"
    /\ <<loc[u].nm, loc[u].pts>> \in DOMAIN Faces

\* C8: while one goroutine is inside a scan, begun by Init or by AddFontPaths,
\* another goroutine's Font call for a cached pair is never held up: the lock
\* its next step needs is free.
C8_CachedFontNotHeldUpByScan ==
    \A t, u \in Threads : (t # u /\ InScan(t) /\ CachedFontAtInit(u)) => initMu = 0

----------------------------------------------------------------------------
(* Properties of FontStyle's decoration bits and of LoadFont *)

\* the last two calls were SetDeco(d) and then ClearDeco(d)
SetThenClear(d) ==
    /\ Len(decoLog) = 2
    /\ decoLog[1].op = "ClearDeco" /\ decoLog[1].flag = d
    /\ decoLog[2].op = "SetDeco" /\ decoLog[2].flag = d

\* C11: for every flag d, SetDeco(d) then ClearDeco(d) from Deco = DecoNone
\* leaves Deco = DecoNone, and from any Deco leaves every flag other than d as
\* it was.
C11_SetThenClearDeco ==
    \A d \in DecoFlags :
        SetThenClear(d) =>
            /\ decoLog[2].pre = DecoNone => Deco = DecoNone
            /\ \A e \in (0..(TextDecorationsN - 1)) \ {d} : BitOf(Deco, e) = BitOf(decoLog[2].pre, e)

C11_Witness ==
    /\ SetThenClear(DecoLineThrough)
    /\ BitOf(decoLog[2].pre, DecoUnderline) = 1 /\ BitOf(decoLog[2].pre, DecoBgColor) = 1
    /\ BitOf(decoLog[2].pre, DecoLineThrough) = 0
    /\ Deco = decoLog[2].pre

\* C12: after LoadFont returns, fs.Face is not nil, whether a face was held
\* before or not, a fallback was given or not, and each request succeeded, found
\* no font or failed to decode.
C12_FaceNeverNil == libOp.op = "LoadFont" => Face # NilFace

C12_Witness ==
    /\ libOp.op = "LoadFont" /\ libOp.name # <<>> /\ libOp.res = "loaderr"
    /\ Len(reqs) = 2
    /\ Face = BasicFace

\* C13: when LoadFont's first request fails and a fallback name was given,
\* LoadFont makes exactly one more request, and it is for the fallback name.
C13_FallbackRequestedOnce ==
    (libOp.op = "LoadFont" /\ libOp.res # "ok" /\ libOp.name # <<>>) =>
        (Len(reqs) = 2 /\ reqs[2] = libOp.name)

----------------------------------------------------------------------------
(* Further properties of StructTableView *)

\* reflect.TypeOf(sl).Elem() is not a struct type
NotOfStructs(sl) == sl.kind # "slice" \/ sl.elem # "struct"

\* the call returned, having changed and rebuilt nothing
SetSliceLeftAll ==
    /\ Slice' = Slice /\ TmpSave' = TmpSave /\ Values' = Values
    /\ events' # <<"rebuild">> /\ ~panicked'

\* sv.Slice != sl is true
ComparesUnequal(sl) == ~IfaceComparePanics(Slice, sl) /\ IfaceNotEqual(Slice, sl)

C15_SaveBeforeEmit ==
    (lastOp.op \in {"SliceNewAt", "SliceDelete"} /\ lastOp.ok) =>
        events = IF TmpSave # "none" THEN <<"mutate", "save", "emit">> ELSE <<"mutate", "emit">>

C15_Witness ==
    /\ lastOp.op = "SliceDelete" /\ lastOp.ok /\ TmpSave = "vv"
    /\ events = <<"mutate", "save", "emit">>

----------------------------------------------------------------------------
(* Further properties of FontLib *)

\* the name a Font call asked for, as the key of FontsAvail
AskedKey(op) == ToLower(op.name)

\* a Font call for a name whose decode failed, with no scan since
LaterFont == libOp'.op = "Font" /\ AskedKey(libOp') \in poisoned /\ AskedKey(libOp') \in poisoned'

\* C16 as claimed: once Font(name, p) has failed to decode, name is no key of
\* FontsAvail, Faces is as before the call, and every later Font(name, q), for
\* every q, fails until a scan has run.
C16_FailedDecodeForgotten ==
    /\ [](\A nm \in poisoned : nm \notin DOMAIN FontsAvail)
    /\ [][(libOp'.op = "Font" /\ libOp'.res = "loaderr") => Faces' = Faces]_vars
    /\ [][LaterFont => libOp'.res # "ok"]_vars

\* C16 as amended: once Font(name, p) has failed to decode, name is no key of
\* FontsAvail, Faces is as before the call, and every later Font(name, q) for a
\* size q at which no face of name is cached fails until a scan has run.
C16_FailedDecodeForgottenUnlessCached ==
    /\ [](\A nm \in poisoned : nm \notin DOMAIN FontsAvail)
    /\ [][(libOp'.op = "Font" /\ libOp'.res = "loaderr") => Faces' = Faces]_vars
    /\ [][(LaterFont /\ CallKey(libOp') \notin DOMAIN Faces) => libOp'.res # "ok"]_vars

C16_Witness ==
    /\ libOp.op = "Font" /\ libOp.res = "notfound"
    /\ AskedKey(libOp) \in poisoned
    /\ DOMAIN FontsAvail # {} /\ DOMAIN Faces # {}

\* C17: Init after Init leaves what one Init leaves, in every state; and an Init
\* of a library that knows a font changes none of FontPaths, FontsAvail, FontInfo
\* and Faces.
C17_InitIdempotent ==
    /\ [](InitOf(InitOf(Lib)) = InitOf(Lib))
    /\ [][(libOp'.op = "Init" /\ DOMAIN FontsAvail # {})
          => UNCHANGED <<FontPaths, FontsAvail, FontInfo, Faces>>]_vars

C17_Witness ==
    /\ libOp.op = "Init" /\ DOMAIN FontsAvail # {}
    /\ Len(FontInfo) > 0 /\ DOMAIN Faces # {}

\* C19: FontInfo holds exactly one entry for each key of FontsAvail: no two
\* entries of one name, and the lower-cased names are the keys.
C19_OneInfoPerFont ==
    /\ \A i, j \in 1..Len(FontInfo) : i # j => FontInfo[i].Name # FontInfo[j].Name
    /\ {ToLower(FontInfo[i].Name) : i \in 1..Len(FontInfo)} = DOMAIN FontsAvail

----------------------------------------------------------------------------
(* A further property of the FontLib shared by goroutines *)

\* goroutine t is inside UpdateFontsAvail's loop, writing FontsAvail and FontInfo
Scanning(t) == pc[t] = "scan_path"

\* the next step of goroutine u reads or writes FontsAvail or FontPaths
AtSharedAccess(u) == pc[u] \in {"scan", "scan_path", "add_append", "font_lookup", "font_delete"}

\* C20: at most one goroutine is inside a directory scan at any time, and none
\* reads or writes FontsAvail or FontPaths while another is writing them.
C20_OneScannerNoRace ==
    \A t, u \in Threads :
        (t # u /\ Scanning(t)) => (~Scanning(u) /\ ~AtSharedAccess(u))

----------------------------------------------------------------------------
(* Where the entries of Faces come from *)

\* entry k of Faces was there before the step, with the same face
FaceKept(k) == k \in DOMAIN Faces /\ Faces'[k] = Faces[k]

\* entry k of Faces was made by the step: a Font call that found the name in
\* FontsAvail, decoded its file and stored the face of that decode
FaceDecoded(k) ==
    /\ libOp'.op = "Font" /\ libOp'.res = "ok" /\ CallKey(libOp') = k
    /\ k[1] \in DOMAIN FontsAvail'
    /\ nDecodes' = nDecodes + 1 /\ Faces'[k] = nDecodes'

\* a scan has recorded the name: FontInfo, which no call shortens, has its entry
ScannedOnce(nm) == \E i \in 1..Len(FontInfo) : ToLower(FontInfo[i].Name) = nm

\* C21: every name that is a key of Faces is, or at an earlier state was, a key
\* of FontsAvail, and every entry of Faces is the face of a successful decode of
\* the file FontsAvail held for its name: Faces starts empty, and every entry a
\* step adds is stored by a Font call that found the name in FontsAvail and
\* decoded its file.
C21_FacesFromAvailableFonts ==
    /\ [](\A k \in DOMAIN Faces : k[1] \in DOMAIN FontsAvail \/ ScannedOnce(k[1]))
    /\ [][\A k \in DOMAIN Faces' : FaceKept(k) \/ FaceDecoded(k)]_vars

C21_Witness ==
    /\ libOp.op = "Font" /\ libOp.res = "ok" /\ CallKey(libOp) \in DOMAIN Faces
    /\ \E k \in DOMAIN Faces : k[1] \notin DOMAIN FontsAvail

----------------------------------------------------------------------------
(* Further properties of FaceNm *)

\* the name FaceNm resolves from the family list, before the modifier words
BaseName ==
    FamilyLoop(DOMAIN FontsAvail, Split(fs.Family), 1,
               IF PrefsFontFamily = <<>> THEN Str.sArial ELSE PrefsFontFamily)

\* the words of a requested combination of style and weight
WordsOf(style, weight) ==
    (IF weight = "WeightBold" THEN <<Str.sBold>> ELSE <<>>)
    \o (IF style = "FontItalic" THEN <<Str.sItalic>>
        ELSE IF style = "FontOblique" THEN <<Str.sOblique>> ELSE <<>>)

\* base with each word appended after a space
RECURSIVE WithWords(_, _)
WithWords(base, words) ==
    IF words = <<>> THEN base ELSE WithWords(base \o <<" ">> \o Head(words), Tail(words))

\* FaceNm was called for a combination none of whose words the base name contains
ModifierCase ==
    /\ libOp.op = "FaceNm"
    /\ WordsOf(fs.Style, fs.Weight) # <<>>
    /\ \A i \in 1..Len(WordsOf(fs.Style, fs.Weight)) : ~Contains(BaseName, WordsOf(fs.Style, fs.Weight)[i])

\* C22: for each of Italic, Oblique, Bold, Bold Italic and Bold Oblique and a base
\* name with none of the requested words, FaceNm returns the base name with the
\* words appended when that name is available, and the base name when it is not.
C22_ModifiedNameWhenAvailable ==
    ModifierCase =>
        libOp.name = IF FontAvail(WithWords(BaseName, WordsOf(fs.Style, fs.Weight)))
                     THEN WithWords(BaseName, WordsOf(fs.Style, fs.Weight))
                     ELSE BaseName

----------------------------------------------------------------------------
(* ConfigSliceGrid when the editor-view factory returns no view *)

\* the last rebuild had ToValueView return nil for one cell
OneCellSkipped == lastOp.op = "Style2D" /\ lastOp.arg > 0

\* the view of cell (f, i) is bound to the widget made for that cell
BoundToOwnWidget(f, i) ==
    /\ Values[f][i] # NoView
    /\ Values[f][i].widg + 1 \in 1..Len(sgKids)
    /\ sgKids[Values[f][i].widg + 1] = [t |-> "value", fld |-> f - 1, row |-> i - 1]

\* C23: when ToValueView returns no view for one cell, ConfigSliceGrid runs to
\* its end with no run-time failure, and every other cell's view is bound to the
\* widget made for that cell.
C23_SkippedCellHarmless ==
    OneCellSkipped =>
        /\ ~panicked
        /\ \A f \in 1..Len(Values) : \A i \in 1..Len(Values[f]) :
               Values[f][i] = NoView \/ BoundToOwnWidget(f, i)

----------------------------------------------------------------------------
(* Which file a key of FontsAvail names *)

\* the keys the walk derives from the font files of a directory
KeysOf(dir) ==
    {WalkDerived[Files(dir)[i]].basefn : i \in {h \in 1..Len(Files(dir)) : WalkDerived[Files(dir)[h]].font}}

\* path j is the first of FontPaths with a file of key k
FirstPathOf(k, j) ==
    /\ k \in KeysOf(FontPaths[j])
    /\ \A h \in 1..(j - 1) : k \notin KeysOf(FontPaths[h])

\* the call just made ran a full scan
JustScanned == libOp.op \in {"AddFontPaths", "UpdateFontsAvail"} /\ Len(FontPaths) > 0

\* C24: after every full scan, each key derived from a file of some path is a key
\* of FontsAvail, and FontsAvail maps it to the file under the earliest path of
\* FontPaths that has one, also after AddFontPaths has appended a path and
\* rescanned.
C24_EarlierPathWins ==
    JustScanned =>
        \A j \in 1..Len(FontPaths) : \A k \in KeysOf(FontPaths[j]) :
            /\ k \in DOMAIN FontsAvail
            /\ FirstPathOf(k, j) => FontsAvail[k].dir = FontPaths[j]

C24_Witness ==
    /\ libOp.op = "AddFontPaths"
    /\ FontPaths = <<"usr", "win">>
    /\ FontsAvail[Str.kArial] = [dir |-> "usr", file |-> In.FileArialCap]

----------------------------------------------------------------------------
(* The full-re-render flag *)

\* C25: after every SliceNewAt and SliceDelete that returns the full-re-render
\* flag is set; it stays set until the next Render2D, which clears it; while it
\* is set ReRender2D returns (nil, false), and while it is clear, as after a
\* Render2D followed by no insert, delete or structural rebuild, ReRender2D
\* returns (the view, true).
C25_FullReRenderUntilRender ==
    /\ []((lastOp.op \in {"SliceNewAt", "SliceDelete"} /\ lastOp.ok) => fullReRender)
    /\ [][(fullReRender /\ lastOp'.op # "Render2D") => fullReRender']_vars
    /\ [](lastOp.op = "Render2D" => ~fullReRender)
    /\ [](lastOp.op = "ReRender2D" => lastOp.arg = IF fullReRender THEN 0 ELSE 1)
    /\ [][(lastOp.op = "Render2D" /\ lastOp'.op = "ReRender2D") => lastOp'.arg = 1]_vars

C25_Witness ==
    /\ lastOp.op = "ReRender2D" /\ lastOp.arg = 0
    /\ Slice.kind = "ptr" /\ Len(coll) = 2 /\ fullReRender

----------------------------------------------------------------------------
(* What a view can do with a collection SetSlice accepts *)

\* the step is one of the calls of the claim on the collection the view holds:
\* a rebuild, SliceNewAt(-1), SliceDelete(k) for a k in range, or SetSlice with a
\* value of the type held
UseOfAccepted ==
    \/ lastOp'.op = "Style2D"
    \/ lastOp'.op = "SliceNewAt" /\ lastOp'.arg = -1
    \/ lastOp'.op = "SliceDelete" /\ lastOp'.arg \in 0..(Len(coll) - 1)
    \/ lastOp'.op = "SetSlice" /\ IfaceSameType(Slice, lastArg')

\* C26: a collection that passes SetSlice's struct check can afterwards be
\* rebuilt, grown by SliceNewAt(-1), shrunk by SliceDelete(k) for a k in range, and
\* set again by SetSlice with a value of the same type, with no run-time failure.
C26_AcceptedCollectionUsable ==
    [][(lastOp.op = "SetSlice" /\ lastOp.ok /\ ElemIsStruct(Slice) /\ UseOfAccepted) => ~panicked']_vars

----------------------------------------------------------------------------
(* The names recorded for files named by alias keys *)

\* directory dir holds the file k.ttf
HoldsBare(dir, k) == \E i \in 1..Len(Files(dir)) : Files(dir)[i] = k \o Str.extTtf

\* the library has the font of alias name an under its own name, as a Normal face
RecordedPlain(an) ==
    /\ ToLower(an) \in DOMAIN FontsAvail
    /\ \E i \in 1..Len(FontInfo) :
           /\ ToLower(FontInfo[i].Name) = ToLower(an)
           /\ FontInfo[i].Style = "FontNormal" /\ FontInfo[i].Weight = "WeightNormal"

\* C27: for every key k of AltFontMap, a scan of a file k.ttf records the key that
\* is the lower-cased alias value, with no modifier suffix, and a FontInfo of
\* style Normal and weight Normal, also for the keys that end in i.
C27_BareAliasIsPlain ==
    JustScanned =>
        \A j \in 1..Len(FontPaths) : \A p \in AltFontMap :
            HoldsBare(FontPaths[j], p[1]) => RecordedPlain(p[2])

----------------------------------------------------------------------------
(* The preference order of the family list *)

\* the family names of fs.Family, in list order
Listed == [i \in 1..Len(Split(fs.Family)) |-> TrimSpace(Split(fs.Family)[i])]

\* the name the switch of FaceNm maps a generic keyword to, <<>> for any other name
MappedFrom(fn) == GenericFamily(DOMAIN FontsAvail, fn, <<>>)

\* i is the first index of the list at which P holds
FirstWith(P(_), i) == P(Listed[i]) /\ \A h \in 1..(i - 1) : ~P(Listed[h])

IsGeneric(fn) == MappedFrom(fn) # <<>>

\* FaceNm was called with no modifier requested
PlainCase == libOp.op = "FaceNm" /\ fs.Style = "FontNormal" /\ fs.Weight = "WeightNormal"

\* C28: FaceNm returns the first listed family that is available, whatever
\* precedes it; when none is available and the list has generic keywords, it
\* returns the family mapped from the first of them in list order.
C28_PreferenceOrder ==
    PlainCase =>
        \A i \in 1..Len(Listed) :
            /\ FirstWith(FontAvail, i) => libOp.name = Listed[i]
            /\ ((\A h \in 1..Len(Listed) : ~FontAvail(Listed[h])) /\ FirstWith(IsGeneric, i))
                   => libOp.name = MappedFrom(Listed[i])

====
